---- MODULE Spec2Model ----
(***************************************************************************)
(* SPIR-V dialect to LLVM dialect conversion patterns                      *)
(* (mlir/lib/Conversion/SPIRVToLLVM/ConvertSPIRVToLLVM.cpp).               *)
(*                                                                         *)
(* One conversion pattern is applied to one source operation `op`.  The    *)
(* rewriter state is the list of target operations created so far          *)
(* (`emitted`), how often the original operation was replaced or erased    *)
(* (`replaced`), the value returned by matchAndRewrite (`outcome`) and, for *)
(* the function and module patterns, the ownership of the body's blocks.   *)
(* `locals` holds the values of the pattern's C++ local variables.         *)
(* `result` is the value the replacement operation computes on the         *)
(* operand values carried by `op` (bit-field and constant patterns).       *)
(* `widthQueries` is the set of types getBitWidth has been called with.    *)
(***************************************************************************)
EXTENDS Integers, Sequences, FiniteSets, TLC

VARIABLES op, emitted, locals, replaced, outcome, result, pc, srcBody, dstBody, dst,
          widthQueries

vars == <<op, emitted, locals, replaced, outcome, result, pc, srcBody, dstBody, dst,
          widthQueries>>

(***************************************************************************)
(* Bounds of the model.                                                    *)
(***************************************************************************)
\* Largest element bit width of an integer type drawn for an input.
MaxWidth == 3
\* Largest number of vector lanes drawn for an input (0 lanes is a scalar).
MaxLanes == 2
\* Largest number of blocks in a function or module body.
MaxBlocks == 2
\* Largest number of function arguments.
MaxArgs == 2

(***************************************************************************)
(* Types.  A type is scalar (lanes = 0) or a vector of `lanes` elements;   *)
(* `llvm` tells an LLVM dialect type from a builtin/SPIR-V one.  The null  *)
(* type is what a failed conversion returns.                               *)
(***************************************************************************)
Signs == {"signless", "signed", "unsigned"}

NullType == [llvm |-> FALSE, kind |-> "null", sign |-> "signless", width |-> 0, lanes |-> 0]

IntType(sign, w) == [llvm |-> FALSE, kind |-> "int", sign |-> sign, width |-> w, lanes |-> 0]

FloatType(w) == [llvm |-> FALSE, kind |-> "float", sign |-> "signless", width |-> w, lanes |-> 0]

\* A type outside the supported set (pointer, struct, array, ...).
OtherType == [llvm |-> FALSE, kind |-> "other", sign |-> "signless", width |-> 0, lanes |-> 0]

\* VectorType::get(numElements, elementType)
VectorOf(n, t) == [t EXCEPT !.lanes = n]

isVector(t) == t.lanes > 0

isIntOrFloat(t) == t.lanes = 0 /\ t.kind \in {"int", "float"}

ElementType(t) == [t EXCEPT !.lanes = 0]

\* The shapes drawn for inputs: scalar, or a vector of 2..MaxLanes lanes.
Shapes == {0} \cup (2..MaxLanes)

Widths == 1..MaxWidth

(***************************************************************************)
(* TypeConverter: integer, float and fixed-size vectors of them convert to *)
(* the signless LLVM type of the same width and shape; every other type    *)
(* fails (the null type).                                                  *)
(***************************************************************************)
convertType(t) ==
  IF t.kind \in {"int", "float"}
    THEN [llvm |-> TRUE, kind |-> t.kind, sign |-> "signless", width |-> t.width, lanes |-> t.lanes]
    ELSE NullType

\* convertFunctionSignature: null as soon as one input or the result fails.
convertFunctionSignature(inputs, results) ==
  IF \E i \in 1..Len(inputs) : convertType(inputs[i]) = NullType
    THEN NullType
  ELSE IF \E i \in 1..Len(results) : convertType(results[i]) = NullType
    THEN NullType
  ELSE [llvm |-> TRUE, kind |-> "func", sign |-> "signless", width |-> Len(inputs), lanes |-> 0]

(***************************************************************************)
(* Utility functions                                                       *)
(***************************************************************************)
isSignedIntegerOrVector(t) == t.kind = "int" /\ ~t.llvm /\ t.sign = "signed"

isUnsignedIntegerOrVector(t) == t.kind = "int" /\ ~t.llvm /\ t.sign = "unsigned"

\* The asserted precondition of getBitWidth.
getBitWidthSupported(t) == ~t.llvm /\ t.kind \in {"int", "float"}

getBitWidth(t) == t.width

getLLVMTypeBitWidth(t) == t.width

(***************************************************************************)
(* Values of width w are the naturals below 2^w (the bit pattern).  Poison *)
(* is the result of an LLVM shift whose amount is not less than the width; *)
(* every operation on poison is poison.                                    *)
(***************************************************************************)
Poison == 0 - 1

Values(w) == 0..(2^w - 1)

\* The w-bit pattern of an integer (two's complement for negatives).
ToBits(w, v) == ((v % (2^w)) + 2^w) % (2^w)

Bit(x, i) == (x \div (2^i)) % 2

RECURSIVE AndBits(_, _, _)
AndBits(w, x, y) ==
  IF w = 0 THEN 0 ELSE (x % 2) * (y % 2) + 2 * AndBits(w - 1, x \div 2, y \div 2)

RECURSIVE OrBits(_, _, _)
OrBits(w, x, y) ==
  IF w = 0 THEN 0
  ELSE (IF (x % 2) + (y % 2) > 0 THEN 1 ELSE 0) + 2 * OrBits(w - 1, x \div 2, y \div 2)

RECURSIVE XorBits(_, _, _)
XorBits(w, x, y) ==
  IF w = 0 THEN 0 ELSE (((x % 2) + (y % 2)) % 2) + 2 * XorBits(w - 1, x \div 2, y \div 2)

AnyPoison(x, y) == x = Poison \/ y = Poison

LLVMAnd(w, x, y) == IF AnyPoison(x, y) THEN Poison ELSE AndBits(w, x, y)

LLVMOr(w, x, y) == IF AnyPoison(x, y) THEN Poison ELSE OrBits(w, x, y)

LLVMXOr(w, x, y) == IF AnyPoison(x, y) THEN Poison ELSE XorBits(w, x, y)

LLVMAdd(w, x, y) == IF AnyPoison(x, y) THEN Poison ELSE (x + y) % (2^w)

LLVMSub(w, x, y) == IF AnyPoison(x, y) THEN Poison ELSE (x - y + 2^w) % (2^w)

LLVMShl(w, x, n) ==
  IF AnyPoison(x, n) \/ n >= w THEN Poison ELSE (x * (2^n)) % (2^w)

LLVMLShr(w, x, n) ==
  IF AnyPoison(x, n) \/ n >= w THEN Poison ELSE x \div (2^n)

LLVMAShr(w, x, n) ==
  IF AnyPoison(x, n) \/ n >= w THEN Poison
  ELSE IF Bit(x, w - 1) = 1 THEN (x \div (2^n)) + (2^w - 2^(w - n))
  ELSE x \div (2^n)

LLVMZExt(x) == x

LLVMTrunc(w, x) == IF x = Poison THEN Poison ELSE x % (2^w)

\* What a build can produce for a value: any bit pattern where it is poison.
Outcomes(w, x) == IF x = Poison THEN Values(w) ELSE {x}

(***************************************************************************)
(* SSA values and the rewriter.  A value is an operand of the source       *)
(* operation or the result of an emitted operation.  An emitted operation  *)
(* records its name, result type, operands, integer attribute and the      *)
(* value it computes in one lane (the emitted arithmetic is element-wise). *)
(* A builder state s holds the operations created so far (s.e), the C++    *)
(* local variables that hold values (s.env) and the types getBitWidth has  *)
(* been called with (s.q).                                                 *)
(***************************************************************************)
NoAttr == 0 - 1

Operand(i) == [def |-> "operand", idx |-> i]

ResultOf(k) == [def |-> "op", idx |-> k]

TypeOf(v, e) == IF v.def = "operand" THEN op.operandTypes[v.idx] ELSE e[v.idx].type

ValOf(v, e) == IF v.def = "operand" THEN op.vals[v.idx] ELSE e[v.idx].val

\* The builder before anything is created; env names the source operands.
Builder(env) == [e |-> <<>>, env |-> env, q |-> {}]

\* A call getBitWidth(type).
Query(s, type) == [s EXCEPT !.q = @ \cup {type}]

\* local = value;
Assign(s, local, v) == [s EXCEPT !.env = (local :> v) @@ s.env]

\* local = rewriter.create<Op>(loc, type, operands...)
Create(s, local, name, type, operands, attr, val) ==
  [e |-> Append(s.e, [name |-> name, type |-> type, operands |-> operands,
                      attr |-> attr, val |-> val]),
   env |-> (local :> ResultOf(Len(s.e) + 1)) @@ s.env,
   q |-> s.q]

\* The value computed by a binary LLVM dialect operation.
Sem(name, w, x, y) ==
  CASE name = "llvm.shl"  -> LLVMShl(w, x, y)
    [] name = "llvm.lshr" -> LLVMLShr(w, x, y)
    [] name = "llvm.ashr" -> LLVMAShr(w, x, y)
    [] name = "llvm.and"  -> LLVMAnd(w, x, y)
    [] name = "llvm.or"   -> LLVMOr(w, x, y)
    [] name = "llvm.xor"  -> LLVMXOr(w, x, y)
    [] name = "llvm.add"  -> LLVMAdd(w, x, y)
    [] name = "llvm.sub"  -> LLVMSub(w, x, y)

\* local = rewriter.create<Op>(loc, type, a, b) for the locals a and b
CreateBinary(s, local, name, type, a, b) ==
  Create(s, local, name, type, <<s.env[a], s.env[b]>>, NoAttr,
         Sem(name, type.width, ValOf(s.env[a], s.e), ValOf(s.env[b], s.e)))

\* minusOneIntegerAttribute: getIntegerAttr(integerType, -1)
minusOneIntegerAttribute(type) == ToBits(ElementType(type).width, 0 - 1)

\* createConstantAllBitsSet: a scalar constant, or a splat for a vector.
createConstantAllBitsSet(s, local, srcType, dstType) ==
  Create(s, local, "llvm.mlir.constant", dstType, <<>>,
         minusOneIntegerAttribute(srcType), minusOneIntegerAttribute(srcType))

\* TruncateOrExtendChoice with the first comparison off by one.
TruncateOrExtendChoiceOrEqual(valueBitWidth, targetBitWidth) ==
  IF valueBitWidth <= targetBitWidth THEN "llvm.zext"
  ELSE IF valueBitWidth > targetBitWidth THEN "llvm.trunc"
  ELSE "none"

\* Which cast optionallyTruncateOrExtend chooses for the two bit widths.
TruncateOrExtendChoice(valueBitWidth, targetBitWidth) ==
  IF valueBitWidth < targetBitWidth THEN "llvm.zext"
  ELSE IF valueBitWidth > targetBitWidth THEN "llvm.trunc"
  ELSE "none"

\* The builder after optionallyTruncateOrExtend has read the width of the
\* local `value`: getBitWidth is called unless the type is an LLVM type.
ValueWidthRead(s, value) ==
  IF TypeOf(s.env[value], s.e).llvm THEN s ELSE Query(s, TypeOf(s.env[value], s.e))

\* local = optionallyTruncateOrExtend(loc, value, dstType, rewriter)
optionallyTruncateOrExtend(s, local, value, dstType) ==
  LET srcType == TypeOf(s.env[value], s.e)
      targetBitWidth == getLLVMTypeBitWidth(dstType)
      valueBitWidth == IF srcType.llvm THEN getLLVMTypeBitWidth(srcType)
                                       ELSE getBitWidth(srcType)
      choice == TruncateOrExtendChoice(valueBitWidth, targetBitWidth)
  IN  IF choice = "llvm.zext"
        THEN Create(ValueWidthRead(s, value), local, "llvm.zext", dstType,
                    <<s.env[value]>>, NoAttr,
                    LLVMZExt(ValOf(s.env[value], s.e)))
      ELSE IF choice = "llvm.trunc"
        THEN Create(ValueWidthRead(s, value), local, "llvm.trunc", dstType,
                    <<s.env[value]>>, NoAttr,
                    LLVMTrunc(targetBitWidth, ValOf(s.env[value], s.e)))
      ELSE Assign(ValueWidthRead(s, value), local, s.env[value])

\* One iteration of the loop of broadcast.
broadcastStep(s, toBroadcast, llvmVectorType, i) ==
  Create(Create(s, "index", "llvm.mlir.constant",
                convertType(IntType("signless", 32)), <<>>, i, i),
         "broadcasted", "llvm.insertelement", llvmVectorType,
         <<s.env["broadcasted"], s.env[toBroadcast], ResultOf(Len(s.e) + 1)>>, NoAttr,
         IF i = 0 THEN ValOf(s.env[toBroadcast], s.e)
                  ELSE ValOf(s.env["broadcasted"], s.e))

\* The loop of broadcast: iterations i, i+1, ..., numElements-1.
RECURSIVE broadcastLoop(_, _, _, _, _)
broadcastLoop(s, toBroadcast, llvmVectorType, i, numElements) ==
  IF i < numElements
    THEN broadcastLoop(broadcastStep(s, toBroadcast, llvmVectorType, i),
                       toBroadcast, llvmVectorType, i + 1, numElements)
    ELSE s

\* First loop index of broadcast.
broadcastFirstIndex == 0

\* broadcasted = broadcast(loc, toBroadcast, numElements, typeConverter, rewriter)
broadcast(s, toBroadcast, numElements) ==
  broadcastLoop(Create(s, "broadcasted", "llvm.mlir.undef",
                       convertType(VectorOf(numElements, TypeOf(s.env[toBroadcast], s.e))),
                       <<>>, NoAttr, Poison),
                toBroadcast,
                convertType(VectorOf(numElements, TypeOf(s.env[toBroadcast], s.e))),
                broadcastFirstIndex, numElements)

\* broadcasted = optionallyBroadcast(loc, value, srcType, typeConverter, rewriter)
optionallyBroadcast(s, value, srcType) ==
  IF isVector(srcType) THEN broadcast(s, value, srcType.lanes)
                       ELSE Assign(s, "broadcasted", s.env[value])

\* local = s.env[from]
Bind(s, local, from) == Assign(s, local, s.env[from])

\* processCountOrOffset with the two steps in the other order.
processCountOrOffsetCastFirst(s, local, value, srcType, dstType) ==
  Bind(optionallyBroadcast(optionallyTruncateOrExtend(s, "resized", value, dstType),
                           "resized", srcType),
       local, "broadcasted")

\* local = processCountOrOffset(loc, value, srcType, dstType, converter, rewriter)
processCountOrOffset(s, local, value, srcType, dstType) ==
  optionallyTruncateOrExtend(optionallyBroadcast(s, value, srcType),
                             local, "broadcasted", dstType)

\* first = optionallyTruncateOrExtend(loc, value, dstType, rewriter), where
\* op carries the type of `value` and, as op.type, dstType.
TruncateOrExtendOnce ==
  /\ pc = "start"
  /\ op.kind = "TruncateOrExtend"
  /\ emitted' = optionallyTruncateOrExtend(Builder([value |-> Operand(1)]),
                                           "first", "value", op.type).e
  /\ locals' = optionallyTruncateOrExtend(Builder([value |-> Operand(1)]),
                                          "first", "value", op.type).env
  /\ widthQueries' = optionallyTruncateOrExtend(Builder([value |-> Operand(1)]),
                                                "first", "value", op.type).q
  /\ pc' = "once"
  /\ UNCHANGED <<op, replaced, outcome, result, srcBody, dstBody, dst>>

\* second = optionallyTruncateOrExtend(loc, first, dstType, rewriter)
TruncateOrExtendAgain ==
  /\ pc = "once"
  /\ emitted' = optionallyTruncateOrExtend([e |-> emitted, env |-> locals, q |-> widthQueries],
                                           "second", "first", op.type).e
  /\ locals' = optionallyTruncateOrExtend([e |-> emitted, env |-> locals, q |-> widthQueries],
                                          "second", "first", op.type).env
  /\ widthQueries' = optionallyTruncateOrExtend(
                       [e |-> emitted, env |-> locals, q |-> widthQueries],
                       "second", "first", op.type).q
  /\ pc' = "done"
  /\ UNCHANGED <<op, replaced, outcome, result, srcBody, dstBody, dst>>

(***************************************************************************)
(* Source operations.  Every input is a record of the same shape; a field  *)
(* a kind does not use keeps its blank value.  `vals` holds one lane of    *)
(* each operand's run-time value, `value` the constant attribute's lanes.  *)
(***************************************************************************)
Blank ==
  [kind |-> "none", flavor |-> "none", type |-> NullType, operandTypes |-> <<>>,
   vals |-> <<>>, value |-> <<>>, numResults |-> 1, control |-> 0,
   inputs |-> <<>>, results |-> <<>>, numBlocks |-> 0, name |-> ""]

\* Widths drawn for the Offset and Count operands of a w-bit Base.
AuxWidthsFor(w) == {a \in {w - 1, w, w + 1} : a >= 1}

\* The bit-field operations whose result SPIR-V defines: Offset + Count does
\* not exceed the width w, and each value fits its operand's type (ow and cw
\* are the widths of the Offset and Count types, n the shape of Base).
BitFieldShape(w, n, ow, cw, o, c) ==
  /\ ow \in AuxWidthsFor(w)
  /\ cw \in AuxWidthsFor(w)
  /\ o + c <= w
  /\ o < 2^ow
  /\ c < 2^cw

\* Operands: Base, Insert, Offset, Count.
BitFieldInsertOp(w, n, ow, cw, b, i, o, c) ==
  [Blank EXCEPT !.kind = "BitFieldInsert",
                !.type = VectorOf(n, IntType("signless", w)),
                !.operandTypes = <<VectorOf(n, IntType("signless", w)),
                                   VectorOf(n, IntType("signless", w)),
                                   IntType("signless", ow),
                                   IntType("signless", cw)>>,
                !.vals = <<b, i, o, c>>]

\* Operands: Base, Offset, Count.
BitFieldExtractOp(kind, w, n, ow, cw, b, o, c) ==
  [Blank EXCEPT !.kind = kind,
                !.type = VectorOf(n, IntType("signless", w)),
                !.operandTypes = <<VectorOf(n, IntType("signless", w)),
                                   IntType("signless", ow),
                                   IntType("signless", cw)>>,
                !.vals = <<b, o, c>>]

(***************************************************************************)
(* The two ways matchAndRewrite returns.                                   *)
(***************************************************************************)
\* return failure();
Decline ==
  /\ outcome' = "Declined"
  /\ pc' = "done"
  /\ UNCHANGED <<op, emitted, locals, replaced, result, srcBody, dstBody, dst, widthQueries>>

\* return failure(); after the calls of getBitWidth recorded in the builder s.
DeclineAfter(s) ==
  /\ outcome' = "Declined"
  /\ pc' = "done"
  /\ widthQueries' = s.q
  /\ UNCHANGED <<op, emitted, locals, replaced, result, srcBody, dstBody, dst>>

\* rewriter.replaceOp / replaceOpWithNewOp after the builder s; return success();
ReplaceOp(s, res) ==
  /\ emitted' = s.e
  /\ locals' = s.env
  /\ widthQueries' = s.q
  /\ replaced' = replaced + 1
  /\ result' = res
  /\ outcome' = "Matched"
  /\ pc' = "done"
  /\ UNCHANGED <<op, srcBody, dstBody, dst>>

(***************************************************************************)
(* Bit-field patterns                                                      *)
(***************************************************************************)
\* What BitFieldInsertPattern creates; "new" is the replacement operation.
BitFieldInsertRewrite(srcType, dstType) ==
  LET s0 == Builder([base |-> Operand(1), insert |-> Operand(2),
                     opOffset |-> Operand(3), opCount |-> Operand(4)])
      s1 == processCountOrOffset(s0, "offset", "opOffset", srcType, dstType)
      s2 == processCountOrOffset(s1, "count", "opCount", srcType, dstType)
      s3 == createConstantAllBitsSet(s2, "minusOne", srcType, dstType)
      s4 == CreateBinary(s3, "maskShiftedByCount", "llvm.shl", dstType, "minusOne", "count")
      s5 == CreateBinary(s4, "negated", "llvm.xor", dstType, "maskShiftedByCount", "minusOne")
      s6 == CreateBinary(s5, "maskShiftedByCountAndOffset", "llvm.shl", dstType,
                         "negated", "offset")
      s7 == CreateBinary(s6, "mask", "llvm.xor", dstType,
                         "maskShiftedByCountAndOffset", "minusOne")
      s8 == CreateBinary(s7, "baseAndMask", "llvm.and", dstType, "base", "mask")
      s9 == CreateBinary(s8, "insertShiftedByOffset", "llvm.shl", dstType, "insert", "offset")
  IN  CreateBinary(s9, "new", "llvm.or", dstType, "baseAndMask", "insertShiftedByOffset")

\* replaceOpWithNewOp with the last operation of the builder s as the new op.
ReplaceWithNew(s, w) ==
  \E r \in Outcomes(w, ValOf(s.env["new"], s.e)) : ReplaceOp(s, <<r>>)

BitFieldInsertPattern ==
  /\ pc = "start"
  /\ op.kind = "BitFieldInsert"
  /\ IF convertType(op.type) = NullType
       THEN Decline
       ELSE ReplaceWithNew(BitFieldInsertRewrite(op.type, convertType(op.type)),
                           op.type.width)

\* The left shift amount of BitFieldSExtractPattern: size - (count + offset).
SExtractShiftLeftAmount(s, dstType) ==
  CreateBinary(CreateBinary(s, "countPlusOffset", "llvm.add", dstType, "count", "offset"),
               "amountToShiftLeft", "llvm.sub", dstType, "size", "countPlusOffset")

\* SExtractShiftRightAmount adding count where the code adds offset.
SExtractShiftRightAmountFromCount(s, dstType) ==
  CreateBinary(s, "amountToShiftRight", "llvm.add", dstType, "count", "amountToShiftLeft")

\* The right shift amount of BitFieldSExtractPattern: offset + amountToShiftLeft.
SExtractShiftRightAmount(s, dstType) ==
  CreateBinary(s, "amountToShiftRight", "llvm.add", dstType, "offset", "amountToShiftLeft")

\* The constant that holds the size of Base.
SExtractSize(s, srcType, dstType) ==
  Create(Query(s, srcType), "size", "llvm.mlir.constant", dstType, <<>>,
         ToBits(getBitWidth(srcType), getBitWidth(srcType)),
         ToBits(getBitWidth(srcType), getBitWidth(srcType)))

BitFieldSExtractRewrite(srcType, dstType) ==
  LET s0 == Builder([base |-> Operand(1), opOffset |-> Operand(2), opCount |-> Operand(3)])
      s1 == processCountOrOffset(s0, "offset", "opOffset", srcType, dstType)
      s2 == processCountOrOffset(s1, "count", "opCount", srcType, dstType)
      s3 == SExtractSize(s2, srcType, dstType)
      s4 == SExtractShiftLeftAmount(s3, dstType)
      s5 == CreateBinary(s4, "baseShiftedLeft", "llvm.shl", dstType,
                         "base", "amountToShiftLeft")
      s6 == SExtractShiftRightAmount(s5, dstType)
  IN  CreateBinary(s6, "new", "llvm.ashr", dstType, "baseShiftedLeft", "amountToShiftRight")

BitFieldSExtractPattern ==
  /\ pc = "start"
  /\ op.kind = "BitFieldSExtract"
  /\ IF convertType(op.type) = NullType
       THEN Decline
       ELSE ReplaceWithNew(BitFieldSExtractRewrite(op.type, convertType(op.type)),
                           op.type.width)

BitFieldUExtractRewrite(srcType, dstType) ==
  LET s0 == Builder([base |-> Operand(1), opOffset |-> Operand(2), opCount |-> Operand(3)])
      s1 == processCountOrOffset(s0, "offset", "opOffset", srcType, dstType)
      s2 == processCountOrOffset(s1, "count", "opCount", srcType, dstType)
      s3 == createConstantAllBitsSet(s2, "minusOne", srcType, dstType)
      s4 == CreateBinary(s3, "maskShiftedByCount", "llvm.shl", dstType, "minusOne", "count")
      s5 == CreateBinary(s4, "mask", "llvm.xor", dstType, "maskShiftedByCount", "minusOne")
      s6 == CreateBinary(s5, "shiftedBase", "llvm.lshr", dstType, "base", "offset")
  IN  CreateBinary(s6, "new", "llvm.and", dstType, "shiftedBase", "mask")

BitFieldUExtractPattern ==
  /\ pc = "start"
  /\ op.kind = "BitFieldUExtract"
  /\ IF convertType(op.type) = NullType
       THEN Decline
       ELSE ReplaceWithNew(BitFieldUExtractRewrite(op.type, convertType(op.type)),
                           op.type.width)

(***************************************************************************)
(* Constant, direct, cast, call, compare, not, return and shift patterns   *)
(***************************************************************************)
\* The result type list of an operation without results.
NoResultType == [llvm |-> TRUE, kind |-> "none", sign |-> "signless", width |-> 0, lanes |-> 0]

\* The operands handed to matchAndRewrite, as values.
Operands == [i \in 1..Len(op.operandTypes) |-> Operand(i)]

\* The builder of a pattern whose locals are the operands only.
OperandBuilder == Builder([operands |-> Operands])

\* replaceOpWithNewOp<Op>(op, type, operands, attr): create, then replace.
ReplaceOpWithNewOp(s, name, type, operands, attr, res) ==
  ReplaceOp(Create(s, "new", name, type, operands, attr, Poison), res)

\* ConstantSignlessLane keeping one bit too few.
ConstantSignlessLaneNarrow(srcType, v) == ToBits(getBitWidth(srcType) - 1, v)

\* The bits of one lane of a signed or unsigned constant, as the signless
\* attribute of width getBitWidth(srcType) built from the lane's APInt.
ConstantSignlessLane(srcType, v) == ToBits(getBitWidth(srcType), v)

\* ConstantScalarAndVectorPattern computing the signless width before it
\* checks the type.
ConstantScalarAndVectorPatternWidthFirst ==
  /\ pc = "start"
  /\ op.kind = "Constant"
  /\ IF ~isVector(op.type) /\ ~isIntOrFloat(op.type)
       THEN DeclineAfter(Query(OperandBuilder, op.type))
     ELSE IF convertType(op.type) = NullType
       THEN DeclineAfter(Query(OperandBuilder, op.type))
     ELSE IF isSignedIntegerOrVector(op.type) \/ isUnsignedIntegerOrVector(op.type)
       THEN ReplaceOpWithNewOp(Query(OperandBuilder, op.type), "llvm.mlir.constant",
                               convertType(op.type), <<>>, NoAttr,
                               [i \in 1..Len(op.value) |->
                                  ConstantSignlessLane(op.type, op.value[i])])
     ELSE ReplaceOpWithNewOp(Query(OperandBuilder, op.type), "llvm.mlir.constant",
                             convertType(op.type), Operands, NoAttr, op.value)

ConstantScalarAndVectorPattern ==
  /\ pc = "start"
  /\ op.kind = "Constant"
  /\ IF ~isVector(op.type) /\ ~isIntOrFloat(op.type)
       THEN Decline
     ELSE IF convertType(op.type) = NullType
       THEN Decline
     ELSE IF isSignedIntegerOrVector(op.type) \/ isUnsignedIntegerOrVector(op.type)
       THEN ReplaceOpWithNewOp(Query(OperandBuilder, op.type), "llvm.mlir.constant",
                               convertType(op.type), <<>>, NoAttr,
                               [i \in 1..Len(op.value) |->
                                  ConstantSignlessLane(op.type, op.value[i])])
     ELSE ReplaceOpWithNewOp(OperandBuilder, "llvm.mlir.constant", convertType(op.type),
                             Operands, NoAttr, op.value)

\* DirectConversionPattern<SPIRVOp, LLVMOp>; op.flavor names LLVMOp.
DirectConversionPattern ==
  /\ pc = "start"
  /\ op.kind = "Direct"
  /\ IF convertType(op.type) = NullType
       THEN Decline
       ELSE ReplaceOpWithNewOp(OperandBuilder, op.flavor, convertType(op.type),
                               Operands, NoAttr, <<>>)

\* LLVMExtOp and LLVMTruncOp of the three instances of IndirectCastPattern.
CastExtOp(flavor) ==
  CASE flavor = "FConvert" -> "llvm.fpext"
    [] flavor = "SConvert" -> "llvm.sext"
    [] flavor = "UConvert" -> "llvm.zext"

CastTruncOp(flavor) == IF flavor = "FConvert" THEN "llvm.fptrunc" ELSE "llvm.trunc"

\* IndirectCastChoice with the first comparison off by one.
IndirectCastChoiceOrEqual(fromWidth, toWidth) ==
  IF fromWidth <= toWidth THEN "ext"
  ELSE IF fromWidth > toWidth THEN "trunc"
  ELSE "failure"

\* Which branch of IndirectCastPattern is taken for the two bit widths.
IndirectCastChoice(fromWidth, toWidth) ==
  IF fromWidth < toWidth THEN "ext"
  ELSE IF fromWidth > toWidth THEN "trunc"
  ELSE "failure"

\* The builder of IndirectCastPattern once getBitWidth(fromType) and
\* getBitWidth(toType) have been compared.
WidthsCompared == Query(Query(OperandBuilder, op.operandTypes[1]), op.type)

\* IndirectCastPattern creating the extension before it compares the widths.
IndirectCastPatternCreatesFirst ==
  /\ pc = "start"
  /\ op.kind = "IndirectCast"
  /\ LET choice == IndirectCastChoice(getBitWidth(op.operandTypes[1]), getBitWidth(op.type))
     IN  IF convertType(op.type) = NullType
           THEN Decline
         ELSE IF choice = "ext"
           THEN ReplaceOpWithNewOp(WidthsCompared, CastExtOp(op.flavor),
                                   convertType(op.type), Operands, NoAttr, <<>>)
         ELSE IF choice = "trunc"
           THEN ReplaceOpWithNewOp(WidthsCompared, CastTruncOp(op.flavor),
                                   convertType(op.type), Operands, NoAttr, <<>>)
         ELSE /\ emitted' = Append(emitted, [name |-> CastExtOp(op.flavor),
                                             type |-> convertType(op.type),
                                             operands |-> Operands, attr |-> NoAttr,
                                             val |-> Poison])
              /\ outcome' = "Declined"
              /\ pc' = "done"
              /\ widthQueries' = WidthsCompared.q
              /\ UNCHANGED <<op, locals, replaced, result, srcBody, dstBody, dst>>

IndirectCastPattern ==
  /\ pc = "start"
  /\ op.kind = "IndirectCast"
  /\ LET choice == IndirectCastChoice(getBitWidth(op.operandTypes[1]), getBitWidth(op.type))
     IN  IF convertType(op.type) = NullType
           THEN Decline
         ELSE IF choice = "ext"
           THEN ReplaceOpWithNewOp(WidthsCompared, CastExtOp(op.flavor),
                                   convertType(op.type), Operands, NoAttr, <<>>)
         ELSE IF choice = "trunc"
           THEN ReplaceOpWithNewOp(WidthsCompared, CastTruncOp(op.flavor),
                                   convertType(op.type), Operands, NoAttr, <<>>)
         ELSE DeclineAfter(WidthsCompared)

FunctionCallPattern ==
  /\ pc = "start"
  /\ op.kind = "FunctionCall"
  /\ IF op.numResults = 0
       THEN ReplaceOpWithNewOp(OperandBuilder, "llvm.call", NoResultType,
                               Operands, NoAttr, <<>>)
       ELSE ReplaceOpWithNewOp(OperandBuilder, "llvm.call", convertType(op.type),
                               Operands, NoAttr, <<>>)

\* FComparePattern<SPIRVOp, predicate>; op.flavor names the predicate.
FComparePattern ==
  /\ pc = "start"
  /\ op.kind = "FCompare"
  /\ IF convertType(op.type) = NullType
       THEN Decline
       ELSE ReplaceOpWithNewOp(OperandBuilder, "llvm.fcmp." \o op.flavor,
                               convertType(op.type), <<Operand(1), Operand(2)>>,
                               NoAttr, <<>>)

\* IComparePattern<SPIRVOp, predicate>; op.flavor names the predicate.
IComparePattern ==
  /\ pc = "start"
  /\ op.kind = "ICompare"
  /\ IF convertType(op.type) = NullType
       THEN Decline
       ELSE ReplaceOpWithNewOp(OperandBuilder, "llvm.icmp." \o op.flavor,
                               convertType(op.type), <<Operand(1), Operand(2)>>,
                               NoAttr, <<>>)

\* NotPattern: xor with the all-ones constant (a splat for a vector).
NotPattern ==
  /\ pc = "start"
  /\ op.kind = "Not"
  /\ IF convertType(op.type) = NullType
       THEN Decline
       ELSE ReplaceWithNew(CreateBinary(createConstantAllBitsSet(
                                          Builder([operand |-> Operand(1)]), "mask",
                                          op.type, convertType(op.type)),
                                        "new", "llvm.xor", convertType(op.type),
                                        "operand", "mask"),
                           op.type.width)

ReturnPattern ==
  /\ pc = "start"
  /\ op.kind = "Return"
  /\ ReplaceOpWithNewOp(OperandBuilder, "llvm.return", NoResultType, <<>>, NoAttr, <<>>)

ReturnValuePattern ==
  /\ pc = "start"
  /\ op.kind = "ReturnValue"
  /\ ReplaceOpWithNewOp(OperandBuilder, "llvm.return", NoResultType, Operands, NoAttr, <<>>)

\* ShiftExtension testing for a signed amount instead of an unsigned one.
ShiftExtensionIfSigned(op2Type) ==
  IF isSignedIntegerOrVector(op2Type) THEN "llvm.sext" ELSE "llvm.zext"

\* The extension ShiftPattern applies to the shift amount of type op2Type.
ShiftExtension(op2Type) ==
  IF isUnsignedIntegerOrVector(op2Type) THEN "llvm.zext" ELSE "llvm.sext"

\* ShiftPattern<SPIRVOp, LLVMOp>; op.flavor names LLVMOp.
ShiftPattern ==
  /\ pc = "start"
  /\ op.kind = "Shift"
  /\ IF convertType(op.type) = NullType
       THEN Decline
     ELSE IF op.operandTypes[1] = op.operandTypes[2]
       THEN ReplaceOpWithNewOp(OperandBuilder, op.flavor, convertType(op.type),
                               Operands, NoAttr, <<>>)
     ELSE ReplaceOp(Create(Create(OperandBuilder, "extended",
                                  ShiftExtension(op.operandTypes[2]), convertType(op.type),
                                  <<Operand(2)>>, NoAttr, Poison),
                           "result", op.flavor, convertType(op.type),
                           <<Operand(1), ResultOf(1)>>, NoAttr, Poison),
                    <<>>)

(***************************************************************************)
(* FuncOp conversion, one action per statement of matchAndRewrite          *)
(***************************************************************************)
\* FunctionControlAttr with the attributes of Pure and Const exchanged.
FunctionControlAttrExchanged(control) ==
  CASE control = 1 -> <<"alwaysinline">>
    [] control = 2 -> <<"noinline">>
    [] control = 4 -> <<"readnone">>
    [] control = 8 -> <<"readonly">>
    [] OTHER -> <<>>

\* The passthrough attribute the switch on function_control sets, if any.
\* FunctionControl: None 0, Inline 1, DontInline 2, Pure 4, Const 8.
FunctionControlAttr(control) ==
  CASE control = 1 -> <<"alwaysinline">>
    [] control = 2 -> <<"noinline">>
    [] control = 4 -> <<"readonly">>
    [] control = 8 -> <<"readnone">>
    [] OTHER -> <<>>

\* auto newFuncOp = rewriter.create<LLVM::LLVMFuncOp>(loc, name, llvmType);
FuncCreate ==
  /\ pc = "start"
  /\ op.kind = "Func"
  /\ emitted' = Append(emitted,
                       [name |-> "llvm.func",
                        type |-> convertFunctionSignature(op.inputs, op.results),
                        operands |-> <<>>, attr |-> NoAttr, val |-> Poison])
  /\ dst' = [dst EXCEPT !.exists = TRUE, !.name = op.name,
                        !.type = convertFunctionSignature(op.inputs, op.results)]
  /\ pc' = "funcCreated"
  /\ UNCHANGED <<op, locals, replaced, outcome, result, srcBody, dstBody, widthQueries>>

\* switch (funcOp.function_control()) ... newFuncOp.setAttr("passthrough", ...)
FuncSetControl ==
  /\ pc = "funcCreated"
  /\ dst' = [dst EXCEPT !.passthrough = FunctionControlAttr(op.control)]
  /\ pc' = "funcControlSet"
  /\ UNCHANGED <<op, emitted, locals, replaced, outcome, result, srcBody, dstBody, widthQueries>>

\* FuncInlineRegion moving the entry block only.
FuncInlineRegionEntryOnly ==
  /\ pc = "funcControlSet"
  /\ dstBody' = IF srcBody = <<>> THEN dstBody ELSE Append(dstBody, Head(srcBody))
  /\ srcBody' = IF srcBody = <<>> THEN srcBody ELSE Tail(srcBody)
  /\ pc' = "funcInlined"
  /\ UNCHANGED <<op, emitted, locals, replaced, outcome, result, dst, widthQueries>>

\* rewriter.inlineRegionBefore(funcOp.getBody(), newFuncOp.getBody(), newFuncOp.end());
FuncInlineRegion ==
  /\ pc = "funcControlSet"
  /\ dstBody' = dstBody \o srcBody
  /\ srcBody' = <<>>
  /\ pc' = "funcInlined"
  /\ UNCHANGED <<op, emitted, locals, replaced, outcome, result, dst, widthQueries>>

\* rewriter.applySignatureConversion(&newFuncOp.getBody(), signatureConverter);
FuncApplySignatureConversion ==
  /\ pc = "funcInlined"
  /\ dst' = [dst EXCEPT !.args = IF dstBody = <<>> THEN <<>>
                                 ELSE [i \in 1..Len(op.inputs) |-> convertType(op.inputs[i])]]
  /\ pc' = "funcRemapped"
  /\ UNCHANGED <<op, emitted, locals, replaced, outcome, result, srcBody, dstBody, widthQueries>>

\* rewriter.eraseOp(funcOp); return success();
FuncErase ==
  /\ pc = "funcRemapped"
  /\ replaced' = replaced + 1
  /\ outcome' = "Matched"
  /\ pc' = "done"
  /\ UNCHANGED <<op, emitted, locals, result, srcBody, dstBody, dst, widthQueries>>

(***************************************************************************)
(* ModuleOp conversion                                                     *)
(***************************************************************************)
\* The block the builder of ModuleOp inserts into the new module's body.
AutoBlock == 0

\* ModuleInlined with the source blocks placed after the builder's block.
ModuleInlinedAfter(source) == <<AutoBlock>> \o source

\* The new module's blocks after inlineRegionBefore(spvModuleOp.body(),
\* newModuleOp.getBody()): the source blocks, before the builder's block.
ModuleInlined(source) == source \o <<AutoBlock>>

\* eraseBlock(&newModuleOp.getBodyRegion().back())
EraseBack(blocks) == SubSeq(blocks, 1, Len(blocks) - 1)

ModuleConversionPattern ==
  /\ pc = "start"
  /\ op.kind = "Module"
  /\ emitted' = Append(emitted, [name |-> "module", type |-> NoResultType,
                                 operands |-> <<>>, attr |-> NoAttr, val |-> Poison])
  /\ dstBody' = EraseBack(ModuleInlined(srcBody))
  /\ srcBody' = <<>>
  /\ dst' = [dst EXCEPT !.exists = TRUE, !.type = NoResultType,
                        !.erasedBlocks = <<ModuleInlined(srcBody)[Len(ModuleInlined(srcBody))]>>]
  /\ replaced' = replaced + 1
  /\ outcome' = "Matched"
  /\ pc' = "done"
  /\ UNCHANGED <<op, locals, result, widthQueries>>

ModuleEndConversionPattern ==
  /\ pc = "start"
  /\ op.kind = "ModuleEnd"
  /\ ReplaceOpWithNewOp(OperandBuilder, "module_terminator", NoResultType, <<>>, NoAttr, <<>>)

(***************************************************************************)
(* Specifications                                                          *)
(***************************************************************************)
\* No target function or module has been created.
NoContainer ==
  [exists |-> FALSE, name |-> "", type |-> NullType, passthrough |-> <<>>, args |-> <<>>,
   erasedBlocks |-> <<>>]

\* The rewriter before a pattern runs on the operation `o`.
Fresh(o) ==
  /\ op = o
  /\ emitted = <<>>
  /\ locals = <<>>
  /\ replaced = 0
  /\ outcome = "Pending"
  /\ result = <<>>
  /\ pc = "start"
  /\ srcBody = [i \in 1..o.numBlocks |-> i]
  /\ dstBody = <<>>
  /\ dst = NoContainer
  /\ widthQueries = {}

InitBitField ==
  \E w \in Widths, n \in Shapes :
    \E ow \in AuxWidthsFor(w), cw \in AuxWidthsFor(w), o \in 0..w, c \in 0..w :
      /\ BitFieldShape(w, n, ow, cw, o, c)
      /\ \E b \in Values(w) :
           \/ \E i \in Values(w) : Fresh(BitFieldInsertOp(w, n, ow, cw, b, i, o, c))
           \/ Fresh(BitFieldExtractOp("BitFieldSExtract", w, n, ow, cw, b, o, c))
           \/ Fresh(BitFieldExtractOp("BitFieldUExtract", w, n, ow, cw, b, o, c))

NextBitField ==
  \/ BitFieldInsertPattern
  \/ BitFieldSExtractPattern
  \/ BitFieldUExtractPattern

\* The three bit-field patterns on every bit-field operation within the
\* bounds, with every operand value.
SpecBitField == InitBitField /\ [][NextBitField]_vars

\* Signed extract at width 8 of Base 0b11010110, every Offset and Count.
InitScenario ==
  \E n \in Shapes, ow \in AuxWidthsFor(8), cw \in AuxWidthsFor(8), o \in 0..8, c \in 0..8 :
    /\ BitFieldShape(8, n, ow, cw, o, c)
    /\ Fresh(BitFieldExtractOp("BitFieldSExtract", 8, n, ow, cw, 214, o, c))

NextScenario == BitFieldSExtractPattern

SpecScenario == InitScenario /\ [][NextScenario]_vars

(***************************************************************************)
(* The whole catalog.  Inputs are verified SPIR-V operations: the operand  *)
(* and result types each operation's verifier admits.                      *)
(***************************************************************************)
IntTypes == {VectorOf(n, IntType(sg, w)) : sg \in Signs, w \in Widths, n \in Shapes}

FloatTypes == {VectorOf(n, FloatType(w)) : w \in Widths, n \in Shapes}

SupportedTypes == IntTypes \cup FloatTypes

AnyTypes == SupportedTypes \cup {OtherType}

\* The sequences over S of length at most k.
SeqsUpTo(S, k) == UNION {[1..m -> S] : m \in 0..k}

\* The integers a lane of a constant of type t can hold.
LaneValues(t) ==
  IF t.kind = "int" /\ t.sign = "signed"
    THEN (0 - 2^(t.width - 1))..(2^(t.width - 1) - 1)
    ELSE Values(t.width)

\* The values of the constant attribute of a constant of type t.
ConstantValues(t) ==
  IF t.kind = "other" THEN {<<>>}
  ELSE [1..(IF isVector(t) THEN t.lanes ELSE 1) -> LaneValues(t)]

\* The types drawn for function arguments and results.
SignatureTypes == {IntType("signless", MaxWidth), FloatType(MaxWidth), OtherType}

FunctionControls == 0..15

FunctionNames == {"main", "kernel"}

FPredicates ==
  {"oeq", "ogt", "oge", "ole", "olt", "one", "ueq", "ugt", "uge", "ule", "ult", "une"}

IPredicates == {"eq", "ne", "sgt", "sge", "sle", "slt", "ugt", "uge", "ule", "ult"}

Bool(n) == VectorOf(n, IntType("signless", 1))

InitBitFieldShapes ==
  \E w \in Widths, n \in Shapes :
    \E ow \in AuxWidthsFor(w), cw \in AuxWidthsFor(w), o \in 0..w, c \in 0..w :
      /\ BitFieldShape(w, n, ow, cw, o, c)
      /\ \/ Fresh(BitFieldInsertOp(w, n, ow, cw, 0, 2^w - 1, o, c))
         \/ Fresh(BitFieldExtractOp("BitFieldSExtract", w, n, ow, cw, 2^w - 1, o, c))
         \/ Fresh(BitFieldExtractOp("BitFieldUExtract", w, n, ow, cw, 2^w - 1, o, c))

InitValueOps ==
  \/ \E t \in AnyTypes : \E v \in ConstantValues(t) :
       Fresh([Blank EXCEPT !.kind = "Constant", !.type = t, !.value = v])
  \/ \E t \in AnyTypes, f \in {"llvm.add", "llvm.select", "llvm.mlir.undef"} :
       Fresh([Blank EXCEPT !.kind = "Direct", !.flavor = f, !.type = t,
                           !.operandTypes = <<t, t>>])
  \/ \E w1 \in Widths, w2 \in Widths, n \in Shapes :
       \/ Fresh([Blank EXCEPT !.kind = "IndirectCast", !.flavor = "FConvert",
                              !.type = VectorOf(n, FloatType(w2)),
                              !.operandTypes = <<VectorOf(n, FloatType(w1))>>])
       \/ \E sg \in Signs, f \in {"SConvert", "UConvert"} :
            Fresh([Blank EXCEPT !.kind = "IndirectCast", !.flavor = f,
                                !.type = VectorOf(n, IntType(sg, w2)),
                                !.operandTypes = <<VectorOf(n, IntType(sg, w1))>>])
  \/ \E args \in SeqsUpTo({IntType("signless", MaxWidth)}, 1) :
       \/ Fresh([Blank EXCEPT !.kind = "FunctionCall", !.numResults = 0,
                              !.operandTypes = args])
       \/ \E t \in AnyTypes :
            Fresh([Blank EXCEPT !.kind = "FunctionCall", !.type = t,
                                !.operandTypes = args])
  \/ \E t \in FloatTypes, f \in FPredicates :
       Fresh([Blank EXCEPT !.kind = "FCompare", !.flavor = f, !.type = Bool(t.lanes),
                           !.operandTypes = <<t, t>>])
  \/ \E t \in IntTypes, f \in IPredicates :
       Fresh([Blank EXCEPT !.kind = "ICompare", !.flavor = f, !.type = Bool(t.lanes),
                           !.operandTypes = <<t, t>>])
  \/ \E t \in IntTypes : \E v \in Values(t.width) :
       Fresh([Blank EXCEPT !.kind = "Not", !.type = t, !.operandTypes = <<t>>,
                           !.vals = <<v>>])
  \/ Fresh([Blank EXCEPT !.kind = "Return", !.numResults = 0])
  \/ \E t \in AnyTypes :
       Fresh([Blank EXCEPT !.kind = "ReturnValue", !.numResults = 0,
                           !.operandTypes = <<t>>])
  \/ \E t1 \in IntTypes, t2 \in IntTypes, f \in {"llvm.ashr", "llvm.lshr", "llvm.shl"} :
       /\ t1.lanes = t2.lanes
       /\ Fresh([Blank EXCEPT !.kind = "Shift", !.flavor = f, !.type = t1,
                              !.operandTypes = <<t1, t2>>])

InitStructureOps ==
  \/ \E ins \in SeqsUpTo(SignatureTypes, MaxArgs), outs \in SeqsUpTo(SignatureTypes, 1),
        ctl \in FunctionControls, nb \in 0..MaxBlocks, fn \in FunctionNames :
       Fresh([Blank EXCEPT !.kind = "Func", !.numResults = 0, !.name = fn, !.inputs = ins,
                           !.results = outs, !.control = ctl, !.numBlocks = nb])
  \/ \E nb \in 1..MaxBlocks :
       Fresh([Blank EXCEPT !.kind = "Module", !.numResults = 0, !.numBlocks = nb])
  \/ Fresh([Blank EXCEPT !.kind = "ModuleEnd", !.numResults = 0])

Init == InitBitFieldShapes \/ InitValueOps \/ InitStructureOps

Next ==
  \/ BitFieldInsertPattern
  \/ BitFieldSExtractPattern
  \/ BitFieldUExtractPattern
  \/ ConstantScalarAndVectorPattern
  \/ DirectConversionPattern
  \/ IndirectCastPattern
  \/ FunctionCallPattern
  \/ FComparePattern
  \/ IComparePattern
  \/ NotPattern
  \/ ReturnPattern
  \/ ReturnValuePattern
  \/ ShiftPattern
  \/ FuncCreate
  \/ FuncSetControl
  \/ FuncInlineRegion
  \/ FuncApplySignatureConversion
  \/ FuncErase
  \/ ModuleConversionPattern
  \/ ModuleEndConversionPattern

\* Every pattern of the three populate functions, one operation at a time.
Spec == Init /\ [][Next]_vars

\* optionallyTruncateOrExtend on a value of a builtin or an LLVM dialect
\* integer type, then on its own result, with the same destination type.
InitTruncateOrExtend ==
  \E t \in IntTypes, w \in Widths, fromLLVM \in BOOLEAN :
    \E v \in Values(t.width) :
      Fresh([Blank EXCEPT !.kind = "TruncateOrExtend",
                          !.type = convertType(VectorOf(t.lanes, IntType("signless", w))),
                          !.operandTypes = <<IF fromLLVM THEN convertType(t) ELSE t>>,
                          !.vals = <<v>>])

NextTruncateOrExtend ==
  \/ TruncateOrExtendOnce
  \/ TruncateOrExtendAgain

SpecTruncateOrExtend == InitTruncateOrExtend /\ [][NextTruncateOrExtend]_vars

(***************************************************************************)
(* Claims about the bit-field patterns                                     *)
(***************************************************************************)
\* A pattern has returned success on an operation of the given kind.
Rewritten(kind) == pc = "done" /\ op.kind = kind /\ outcome = "Matched"

\* The bits [offset, offset+count) of x, as a number below 2^count.
Field(x, offset, count) == (x \div (2^offset)) % (2^count)

\* The two's-complement sign extension to width w of the count-bit number f.
SignExtend(w, f, count) ==
  IF count > 0 /\ Bit(f, count - 1) = 1 THEN f + (2^w - 2^count) ELSE f

\* C1: after BitFieldInsertPattern, for Offset + Count <= width, the result's
\* bits in [Offset, Offset+Count) are the low Count bits of Insert and every
\* other bit is the corresponding bit of Base.
C1_InsertBitsAsSpecified ==
  Rewritten("BitFieldInsert") =>
    \A i \in 0..(op.type.width - 1) :
      Bit(result[1], i) =
        IF op.vals[3] <= i /\ i < op.vals[3] + op.vals[4]
          THEN Bit(op.vals[2], i - op.vals[3])
          ELSE Bit(op.vals[1], i)

\* C2: after BitFieldUExtractPattern, for Offset + Count <= width, the result
\* is Base's bits [Offset, Offset+Count) in its low Count bits and zero above.
C2_UExtractBitsAsSpecified ==
  Rewritten("BitFieldUExtract") =>
    result[1] = Field(op.vals[1], op.vals[2], op.vals[3])

\* C3: after BitFieldSExtractPattern, for Offset + Count <= width, the result
\* is the sign extension to the full width of Base's bits [Offset, Offset+Count).
C3_SExtractSignExtends ==
  Rewritten("BitFieldSExtract") =>
    result[1] = SignExtend(op.type.width,
                           Field(op.vals[1], op.vals[2], op.vals[3]), op.vals[3])

\* The signed extract of Base 0b11010110 at width 8, Offset 1, Count 3 is done.
ScenarioDone ==
  /\ Rewritten("BitFieldSExtract")
  /\ op.type.width = 8
  /\ op.vals = <<214, 1, 3>>

\* C4 as stated: in the scenario the top extracted bit (bit 3 of Base) is 1
\* and the signed extract yields 0b11111011.
C4_ScenarioYieldsMinusFive ==
  ScenarioDone => Bit(op.vals[1], 3) = 1 /\ result[1] = 251

\* C4, amended: in the scenario the top extracted bit (bit 3 of Base) is 0
\* and the signed extract yields 0b00000011.
C4_ScenarioYieldsThree ==
  ScenarioDone => Bit(op.vals[1], 3) = 0 /\ result[1] = 3

C4_Witness == ScenarioDone /\ result = <<3>> /\ Len(emitted) >= 7

(***************************************************************************)
(* Claims about the dispatch contract                                      *)
(***************************************************************************)
\* Nothing was created, erased or modified.
Untouched ==
  /\ emitted = <<>>
  /\ replaced = 0
  /\ dst = NoContainer
  /\ dstBody = <<>>
  /\ srcBody = [i \in 1..op.numBlocks |-> i]

\* C5: a rule that has returned is either Matched, with at least one
\* operation created and the original replaced or erased exactly once, or
\* Declined with nothing created, erased or modified; until it returns the
\* original is in place.
C5_MatchedOrDeclined ==
  /\ outcome \in {"Pending", "Matched", "Declined"}
  /\ (pc = "done") = (outcome # "Pending")
  /\ outcome = "Pending" => replaced = 0
  /\ outcome = "Matched" => replaced = 1 /\ Len(emitted) >= 1
  /\ outcome = "Declined" => Untouched

C5_Witness ==
  /\ pc = "done"
  /\ op.kind = "IndirectCast"
  /\ outcome = "Declined"
  /\ Untouched

\* The TypeConverter fails on a type the rule applied to op needs.
NeededTypeFails ==
  \/ /\ op.kind \in {"BitFieldInsert", "BitFieldSExtract", "BitFieldUExtract", "Constant",
                     "Direct", "IndirectCast", "FCompare", "ICompare", "Not", "Shift"}
     /\ convertType(op.type) = NullType
  \/ /\ op.kind = "FunctionCall"
     /\ op.numResults = 1
     /\ convertType(op.type) = NullType
  \/ /\ op.kind = "Func"
     /\ convertFunctionSignature(op.inputs, op.results) = NullType

\* C6: when the TypeConverter fails on a type the rule needs, the rule
\* returns Declined and emits no operation; no emitted operation carries the
\* null type.
C6_ConverterFailureDeclines ==
  /\ \A k \in 1..Len(emitted) : emitted[k].type # NullType
  /\ (pc = "done" /\ NeededTypeFails) => (outcome = "Declined" /\ emitted = <<>>)

(***************************************************************************)
(* Claims about the indirect cast and constant patterns                    *)
(***************************************************************************)
\* The indirect cast created exactly the operation `name` and replaced op.
CastEmitted(name) ==
  /\ outcome = "Matched"
  /\ replaced = 1
  /\ Len(emitted) = 1
  /\ emitted[1].name = name
  /\ emitted[1].type = convertType(op.type)
  /\ emitted[1].operands = <<Operand(1)>>

\* C7: the indirect cast pattern extends iff the source element width is
\* less than the target's, truncates iff it is greater, and declines, with
\* nothing created and the original in place, iff the widths are equal.
C7_ExtendTruncateOrDecline ==
  (pc = "done" /\ op.kind = "IndirectCast" /\ convertType(op.type) # NullType) =>
    /\ CastEmitted(CastExtOp(op.flavor)) = (op.operandTypes[1].width < op.type.width)
    /\ CastEmitted(CastTruncOp(op.flavor)) = (op.operandTypes[1].width > op.type.width)
    /\ (outcome = "Declined" /\ Untouched) = (op.operandTypes[1].width = op.type.width)

C7_Witness ==
  /\ pc = "done"
  /\ op.kind = "IndirectCast"
  /\ op.operandTypes[1].width = MaxWidth
  /\ op.type.width = MaxWidth
  /\ outcome = "Declined"
  /\ emitted = <<>>

\* The integer a w-bit pattern stands for under the signedness of type t.
Interpret(t, bits) ==
  IF t.sign = "signed" /\ bits >= 2^(t.width - 1) THEN bits - 2^t.width ELSE bits

\* C8: the signless constant emitted for a signed or unsigned integer
\* constant has, lane by lane and in the same order, the bit pattern of the
\* source constant: as many lanes, each a pattern of the source width that
\* reads back, under the source signedness, as the source lane's value.
C8_ConstantKeepsBitPattern ==
  (Rewritten("Constant") /\ op.type.kind = "int" /\ op.type.sign # "signless") =>
    /\ emitted[1].name = "llvm.mlir.constant"
    /\ emitted[1].type = [llvm |-> TRUE, kind |-> "int", sign |-> "signless",
                          width |-> op.type.width, lanes |-> op.type.lanes]
    /\ Len(result) = Len(op.value)
    /\ \A i \in 1..Len(op.value) :
         /\ result[i] \in Values(op.type.width)
         /\ Interpret(op.type, result[i]) = op.value[i]

C8_Witness ==
  /\ Rewritten("Constant")
  /\ op.type.sign = "signed"
  /\ op.type.lanes = 2
  /\ op.value = <<0 - 2^(op.type.width - 1), 2^(op.type.width - 1) - 1>>
  /\ result = <<2^(op.type.width - 1), 2^(op.type.width - 1) - 1>>

(***************************************************************************)
(* Claims about the helpers                                                *)
(***************************************************************************)
\* The first application created exactly the cast `name` of the value.
OneCast(name) ==
  /\ Len(emitted) = 1
  /\ emitted[1].name = name
  /\ emitted[1].type = op.type
  /\ emitted[1].operands = <<Operand(1)>>
  /\ locals["first"] = ResultOf(1)

\* C9: optionallyTruncateOrExtend creates exactly one zext when the value is
\* narrower than the destination type, exactly one trunc when it is wider,
\* and nothing, returning the value itself, when the widths are equal; applied
\* again to its own result it creates nothing and returns that result.
C9_TruncateOrExtendOnceThenIdentity ==
  (op.kind = "TruncateOrExtend" /\ pc \in {"once", "done"}) =>
    /\ op.operandTypes[1].width < op.type.width => OneCast("llvm.zext")
    /\ op.operandTypes[1].width > op.type.width => OneCast("llvm.trunc")
    /\ op.operandTypes[1].width = op.type.width =>
         emitted = <<>> /\ locals["first"] = Operand(1)
    /\ pc = "done" => locals["second"] = locals["first"]

C9_Witness ==
  /\ op.kind = "TruncateOrExtend"
  /\ pc = "done"
  /\ op.operandTypes[1].width < op.type.width
  /\ Len(emitted) = 1
  /\ locals["second"] = ResultOf(1)

\* The positions of the Offset and Count operands of a bit-field operation.
AuxOperands == IF op.kind = "BitFieldInsert" THEN {3, 4} ELSE {2, 3}

BitFieldKinds == {"BitFieldInsert", "BitFieldSExtract", "BitFieldUExtract"}

\* The emitted insertelement operations that insert the operand `aux`.
InsertsOf(aux) ==
  {k \in 1..Len(emitted) :
     emitted[k].name = "llvm.insertelement" /\ emitted[k].operands[2] = Operand(aux)}

\* The operations from position k are a broadcast of operand `aux` to n
\* lanes: an undef vector, then for i = 0..n-1 the constant i and the
\* insertelement of the operand at that index into the previous vector.
BroadcastAt(k, aux, n) ==
  /\ k + 2 * n <= Len(emitted)
  /\ emitted[k].name = "llvm.mlir.undef"
  /\ emitted[k].type.lanes = n
  /\ \A i \in 0..(n - 1) :
       /\ emitted[k + 1 + 2 * i].name = "llvm.mlir.constant"
       /\ emitted[k + 1 + 2 * i].attr = i
       /\ emitted[k + 2 + 2 * i].name = "llvm.insertelement"
       /\ emitted[k + 2 + 2 * i].type.lanes = n
       /\ emitted[k + 2 + 2 * i].operands =
            <<ResultOf(k + 2 * i), Operand(aux),
              ResultOf(k + 1 + 2 * i)>>

Casts == {k \in 1..Len(emitted) : emitted[k].name \in {"llvm.zext", "llvm.trunc"}}

\* C10: for an N-lane vector Base, Offset and Count are each broadcast by an
\* undef vector and exactly N inserts at the indices 0..N-1 in that order, and
\* every zext/trunc comes after such a broadcast and is applied to its last
\* vector; for a scalar Base no undef or insertelement is emitted and every
\* zext/trunc is applied to the operand itself.
C10_BroadcastBeforeCast ==
  (pc = "done" /\ op.kind \in BitFieldKinds /\ outcome = "Matched") =>
    IF isVector(op.type)
      THEN /\ \A aux \in AuxOperands :
                /\ Cardinality(InsertsOf(aux)) = op.type.lanes
                /\ \E k \in 1..Len(emitted) : BroadcastAt(k, aux, op.type.lanes)
           /\ \A c \in Casts :
                \E k \in 1..c, aux \in AuxOperands :
                  /\ BroadcastAt(k, aux, op.type.lanes)
                  /\ c = k + 2 * op.type.lanes + 1
                  /\ emitted[c].operands = <<ResultOf(c - 1)>>
      ELSE /\ \A k \in 1..Len(emitted) :
                emitted[k].name \notin {"llvm.mlir.undef", "llvm.insertelement"}
           /\ \A c \in Casts :
                \E aux \in AuxOperands : emitted[c].operands = <<Operand(aux)>>

C10_Witness ==
  /\ pc = "done"
  /\ op.kind = "BitFieldInsert"
  /\ isVector(op.type)
  /\ op.operandTypes[3].width = op.type.width
  /\ op.operandTypes[4].width < op.type.width
  /\ BroadcastAt(1, 3, op.type.lanes)
  /\ BroadcastAt(2 + 2 * op.type.lanes, 4, op.type.lanes)
  /\ emitted[3 + 4 * op.type.lanes].name = "llvm.zext"

(***************************************************************************)
(* Claims about the shift pattern                                          *)
(***************************************************************************)
Extensions == {"llvm.zext", "llvm.sext"}

\* C11: the shift pattern creates exactly the target shift over the two
\* operands when their types are equal; otherwise exactly one extension of
\* the shift amount to the converted result type, then the shift of the
\* first operand by the extension; the extension is zext iff the amount's
\* type is an unsigned integer or vector of them, sext otherwise.
C11_ShiftExtendsByAmountSignedness ==
  Rewritten("Shift") =>
    IF op.operandTypes[1] = op.operandTypes[2]
      THEN /\ Len(emitted) = 1
           /\ emitted[1].name = op.flavor
           /\ emitted[1].operands = <<Operand(1), Operand(2)>>
      ELSE /\ Len(emitted) = 2
           /\ emitted[1].name =
                (IF op.operandTypes[2].sign = "unsigned" THEN "llvm.zext" ELSE "llvm.sext")
           /\ emitted[1].type = convertType(op.type)
           /\ emitted[1].operands = <<Operand(2)>>
           /\ emitted[2].name = op.flavor
           /\ emitted[2].type = convertType(op.type)
           /\ emitted[2].operands = <<Operand(1), ResultOf(1)>>

C11_Witness ==
  /\ Rewritten("Shift")
  /\ op.operandTypes[2].sign = "signless"
  /\ op.operandTypes[2].width < op.operandTypes[1].width
  /\ Len(emitted) = 2
  /\ emitted[1].name = "llvm.sext"

\* C17: when the shift amount is not wider than the shifted value, every
\* extension the shift pattern creates strictly widens: the amount's element
\* width is less than the result's.
C17_ShiftExtensionWidens ==
  (Rewritten("Shift") /\ op.operandTypes[2].width <= op.operandTypes[1].width) =>
    \A k \in 1..Len(emitted) :
      emitted[k].name \in Extensions => op.operandTypes[2].width < op.type.width

(***************************************************************************)
(* Claims about the function and module patterns                           *)
(***************************************************************************)
\* The switch on function_control has been executed.
ControlSet == op.kind = "Func" /\ pc \in {"funcControlSet", "funcInlined", "funcRemapped", "done"}

\* C12: once the switch on the function control has run, the new function's
\* passthrough list is [alwaysinline] for Inline (1), [noinline] for
\* DontInline (2), [readonly] for Pure (4), [readnone] for Const (8) and
\* absent for None (0) and every other value; before, it is absent.
C12_FunctionControlTable ==
  /\ (op.kind = "Func" /\ ~ControlSet) => dst.passthrough = <<>>
  /\ ControlSet =>
       /\ op.control = 1 => dst.passthrough = <<"alwaysinline">>
       /\ op.control = 2 => dst.passthrough = <<"noinline">>
       /\ op.control = 4 => dst.passthrough = <<"readonly">>
       /\ op.control = 8 => dst.passthrough = <<"readnone">>
       /\ op.control \notin {1, 2, 4, 8} => dst.passthrough = <<>>

C12_Witness ==
  /\ op.kind = "Func"
  /\ pc = "done"
  /\ op.control = 8
  /\ dst.passthrough = <<"readnone">>

\* The blocks of the source body, in their original order.
SourceBlocks == [i \in 1..op.numBlocks |-> i]

\* C13 as stated: the module pattern drops the final block of the source
\* module's body, the target module holds the remaining source blocks in
\* their order, and the source module is erased.
C13_DropsSourceFinalBlock ==
  Rewritten("Module") =>
    /\ dst.erasedBlocks = <<SourceBlocks[op.numBlocks]>>
    /\ dstBody = SubSeq(SourceBlocks, 1, op.numBlocks - 1)
    /\ replaced = 1

\* C13, amended: the module pattern drops the block the builder inserted
\* into the new module; the target module holds every source block in the
\* original order, the source body is empty and the source module is erased.
C13_DropsBuilderBlock ==
  Rewritten("Module") =>
    /\ dst.exists
    /\ dst.erasedBlocks = <<AutoBlock>>
    /\ dstBody = SourceBlocks
    /\ srcBody = <<>>
    /\ replaced = 1

C13_Witness ==
  /\ Rewritten("Module")
  /\ op.numBlocks = 1
  /\ dstBody = <<1>>
  /\ dst.erasedBlocks = <<AutoBlock>>

\* How many times block b occurs in the body `blocks`.
Occurrences(b, blocks) == Cardinality({i \in 1..Len(blocks) : blocks[i] = b})

\* The number of entry-block arguments after the remapping.
RemappedArgs == IF op.numBlocks > 0 THEN Len(op.inputs) ELSE 0

\* C14: the function pattern creates the new function (name of the source,
\* converted signature), sets the control attribute, moves the whole body,
\* remaps the entry block's arguments and erases the old function, in this
\* order; at every step each block is owned by exactly one of the two
\* functions; at the end the old function owns none, the new one owns all in
\* the original order, with as many entry-block arguments as the source.
C14_FuncStepsAndOwnership ==
  op.kind = "Func" =>
    /\ \A b \in 1..op.numBlocks : Occurrences(b, srcBody) + Occurrences(b, dstBody) = 1
    /\ Len(srcBody) + Len(dstBody) = op.numBlocks
    /\ dst.exists =>
         dst.name = op.name /\ dst.type = convertFunctionSignature(op.inputs, op.results)
    /\ ~dst.exists => pc = "start" /\ dst.passthrough = <<>>
    /\ dstBody # <<>> => dst.exists /\ pc \notin {"start", "funcCreated", "funcControlSet"}
    /\ pc \in {"start", "funcCreated", "funcControlSet"} =>
         srcBody = SourceBlocks /\ dst.args = <<>> /\ replaced = 0
    /\ pc = "funcInlined" =>
         srcBody = <<>> /\ dstBody = SourceBlocks /\ dst.args = <<>> /\ replaced = 0
    /\ pc = "funcRemapped" =>
         dstBody = SourceBlocks /\ Len(dst.args) = RemappedArgs /\ replaced = 0
    /\ replaced = 1 =>
         /\ pc = "done"
         /\ srcBody = <<>>
         /\ dstBody = SourceBlocks
         /\ Len(dst.args) = RemappedArgs

C14_Witness ==
  /\ op.kind = "Func"
  /\ pc = "done"
  /\ replaced = 1
  /\ op.numBlocks = MaxBlocks
  /\ Len(op.inputs) = MaxArgs
  /\ Len(dst.args) = MaxArgs
  /\ srcBody = <<>>
  /\ Len(dstBody) = MaxBlocks

(***************************************************************************)
(* Claims about shift amounts and bit widths                               *)
(***************************************************************************)
Shifts == {"llvm.shl", "llvm.lshr", "llvm.ashr"}

\* C16: for Offset + Count <= width, the amount of every shift a bit-field
\* pattern creates lies in 0..width-1.
C16_ShiftAmountsBelowWidth ==
  (pc = "done" /\ op.kind \in BitFieldKinds /\ outcome = "Matched") =>
    \A k \in 1..Len(emitted) :
      emitted[k].name \in Shifts =>
        ValOf(emitted[k].operands[2], emitted) \in 0..(op.type.width - 1)

====
